---- MODULE Spec2Model ----
(***************************************************************************)
(* Model of cc-rs target handling: the triple decomposer                   *)
(* (TargetInfo::from_rustc_target, src/target/parser.rs), the LLVM         *)
(* re-encoder (TargetInfo::llvm_target, src/target/llvm.rs) and the        *)
(* environment resolver (TargetInfoParser, src/target/parser.rs).          *)
(*                                                                         *)
(* A Rust &str is a sequence of one-character strings, so that split,      *)
(* starts_with, ends_with and strip_prefix are computed, not assumed.      *)
(* The empty &str is << >>.                                                *)
(***************************************************************************)
EXTENDS Naturals, Sequences, FiniteSets, TLC

VARIABLES
    target,     \* decomposer: the argument of from_rustc_target
    dres,       \* decomposer: << >> before the call, <<Result>> after it
    llvm,       \* re-encoder: << >>, or the version passed to llvm_target and the String returned
    environ,    \* resolver: the process environment, variable name -> None | Some(value)
    once,       \* resolver: state of the OnceLock's Once
    slot,       \* resolver: the OnceLock's value slot, << >> while unwritten
    pc,         \* resolver: per thread, position in parse_from_cargo_environment_variables
    tmp,        \* resolver: per thread, the value the init closure computed
    how,        \* resolver: per thread, the path the current call took through get_or_init
    ret,        \* resolver: per thread, << >> or the record of its last completed call
    first,      \* resolver: << >> or the record of the first call that completed
    seen,       \* resolver: the environments read by from_cargo_environment_variables, in order
    runs,       \* resolver: times from_cargo_environment_variables was started
    commits,    \* resolver: times a value was written to the slot
    calls,      \* resolver: calls of parse_from_cargo_environment_variables started
    changes     \* resolver: changes made to the environment

dvars == <<target, dres, llvm>>
rvars == <<environ, once, slot, pc, tmp, how, ret, first, seen, runs, commits, calls, changes>>
vars == <<dvars, rvars>>

-----------------------------------------------------------------------------
(* str primitives *)

starts_with(s, p) == Len(s) >= Len(p) /\ SubSeq(s, 1, Len(p)) = p

ends_with(s, p) == Len(s) >= Len(p) /\ SubSeq(s, Len(s) - Len(p) + 1, Len(s)) = p

\* str::strip_prefix(p).unwrap(): only used where starts_with(s, p) holds
strip_prefix(s, p) == SubSeq(s, Len(p) + 1, Len(s))

\* index of the first occurrence of character c in s, 0 when there is none
RECURSIVE find(_, _, _)
find(s, c, i) ==
    IF i > Len(s) THEN 0
    ELSE IF s[i] = c THEN i
    ELSE find(s, c, i + 1)

\* str::split(c) collected: always at least one component
RECURSIVE split(_, _)
split(s, c) ==
    LET i == find(s, c, 1)
    IN  IF i = 0 THEN <<s>>
        ELSE <<SubSeq(s, 1, i - 1)>> \o split(SubSeq(s, i + 1, Len(s)), c)

None == [some |-> FALSE]
Some(v) == [some |-> TRUE, v |-> v]

\* str::split_once(c)
split_once(s, c) ==
    LET i == find(s, c, 1)
    IN  IF i = 0 THEN None
        ELSE Some(<<SubSeq(s, 1, i - 1), SubSeq(s, i + 1, Len(s))>>)

\* Iterator::rev collected
RECURSIVE rev(_)
rev(q) == IF q = << >> THEN << >> ELSE rev(Tail(q)) \o <<Head(q)>>

Ok(t) == [ok |-> TRUE, v |-> t]
Err(kind, msg) == [ok |-> FALSE, kind |-> kind, msg |-> msg]

TargetInfo(full_arch, arch, vendor, os, env, abi) ==
    [full_arch |-> full_arch, arch |-> arch, vendor |-> vendor,
     os |-> os, env |-> env, abi |-> abi]

-----------------------------------------------------------------------------
(* parse_arch: the match arms in source order; the first arm that matches   *)
(* decides.  kind "prefix" is starts_with, "exact" a literal pattern,       *)
(* "i86" the arm starts_with("i") && ends_with("86").                       *)

ArchArm(kind, pat, out) == [kind |-> kind, pat |-> pat, out |-> out]

ArchArms == <<
    ArchArm("prefix", <<"m","i","p","s","i","s","a","3","2","r","6">>, <<"m","i","p","s","3","2","r","6">>),
    ArchArm("prefix", <<"m","i","p","s","i","s","a","6","4","r","6">>, <<"m","i","p","s","6","4","r","6">>),
    ArchArm("prefix", <<"m","i","p","s","6","4">>, <<"m","i","p","s","6","4">>),
    ArchArm("prefix", <<"m","i","p","s">>, <<"m","i","p","s">>),
    ArchArm("prefix", <<"l","o","o","n","g","a","r","c","h","6","4">>, <<"l","o","o","n","g","a","r","c","h","6","4">>),
    ArchArm("prefix", <<"l","o","o","n","g","a","r","c","h","3","2">>, <<"l","o","o","n","g","a","r","c","h","3","2">>),
    ArchArm("prefix", <<"p","o","w","e","r","p","c","6","4">>, <<"p","o","w","e","r","p","c","6","4">>),
    ArchArm("prefix", <<"p","o","w","e","r","p","c">>, <<"p","o","w","e","r","p","c">>),
    ArchArm("prefix", <<"p","p","c","6","4">>, <<"p","o","w","e","r","p","c","6","4">>),
    ArchArm("prefix", <<"p","p","c">>, <<"p","o","w","e","r","p","c">>),
    ArchArm("prefix", <<"x","8","6","_","6","4">>, <<"x","8","6","_","6","4">>),
    ArchArm("i86", <<"i">>, <<"x","8","6">>),
    ArchArm("exact", <<"a","r","m","6","4","e","c">>, <<"a","r","m","6","4","e","c">>),
    ArchArm("prefix", <<"a","a","r","c","h","6","4">>, <<"a","a","r","c","h","6","4">>),
    ArchArm("prefix", <<"a","r","m","6","4">>, <<"a","a","r","c","h","6","4">>),
    ArchArm("prefix", <<"a","r","m">>, <<"a","r","m">>),
    ArchArm("prefix", <<"t","h","u","m","b">>, <<"a","r","m">>),
    ArchArm("prefix", <<"r","i","s","c","v","6","4">>, <<"r","i","s","c","v","6","4">>),
    ArchArm("prefix", <<"r","i","s","c","v","3","2">>, <<"r","i","s","c","v","3","2">>),
    ArchArm("prefix", <<"w","a","s","m","6","4">>, <<"w","a","s","m","6","4">>),
    ArchArm("prefix", <<"w","a","s","m","3","2">>, <<"w","a","s","m","3","2">>),
    ArchArm("exact", <<"a","s","m","j","s">>, <<"w","a","s","m","3","2">>),
    ArchArm("prefix", <<"n","v","p","t","x","6","4">>, <<"n","v","p","t","x","6","4">>),
    ArchArm("prefix", <<"n","v","p","t","x">>, <<"n","v","p","t","x">>),
    ArchArm("prefix", <<"b","p","f">>, <<"b","p","f">>),
    ArchArm("prefix", <<"p","u","l","l","e","y","6","4">>, <<"p","u","l","l","e","y","6","4">>),
    ArchArm("prefix", <<"p","u","l","l","e","y","3","2">>, <<"p","u","l","l","e","y","3","2">>),
    ArchArm("prefix", <<"c","l","e","v","e","r">>, <<"c","l","e","v","e","r">>),
    ArchArm("exact", <<"s","p","a","r","c">>, <<"s","p","a","r","c">>),
    ArchArm("exact", <<"s","p","a","r","c","v","7">>, <<"s","p","a","r","c">>),
    ArchArm("exact", <<"s","p","a","r","c","v","8">>, <<"s","p","a","r","c">>),
    ArchArm("exact", <<"s","p","a","r","c","6","4">>, <<"s","p","a","r","c","6","4">>),
    ArchArm("exact", <<"s","p","a","r","c","v","9">>, <<"s","p","a","r","c","6","4">>),
    ArchArm("exact", <<"a","m","d","g","c","n">>, <<"a","m","d","g","p","u">>),
    ArchArm("exact", <<"a","v","r">>, <<"a","v","r">>),
    ArchArm("exact", <<"c","s","k","y">>, <<"c","s","k","y">>),
    ArchArm("exact", <<"h","e","x","a","g","o","n">>, <<"h","e","x","a","g","o","n">>),
    ArchArm("exact", <<"m","6","8","k">>, <<"m","6","8","k">>),
    ArchArm("exact", <<"m","s","p","4","3","0">>, <<"m","s","p","4","3","0">>),
    ArchArm("exact", <<"r","6","0","0">>, <<"r","6","0","0">>),
    ArchArm("exact", <<"s","3","9","0","x">>, <<"s","3","9","0","x">>),
    ArchArm("exact", <<"x","t","e","n","s","a">>, <<"x","t","e","n","s","a">>) >>

ArchArmMatches(arm, full_arch) ==
    IF arm.kind = "prefix" THEN starts_with(full_arch, arm.pat)
    ELSE IF arm.kind = "i86" THEN starts_with(full_arch, arm.pat) /\ ends_with(full_arch, <<"8","6">>)
    ELSE full_arch = arm.pat

\* a variant that tries the arms from the bottom of the match upwards
RECURSIVE FirstArchArm_bottom_up(_, _)
FirstArchArm_bottom_up(full_arch, i) ==
    IF i > Len(ArchArms) THEN None
    ELSE IF ArchArmMatches(ArchArms[Len(ArchArms) + 1 - i], full_arch)
         THEN Some(ArchArms[Len(ArchArms) + 1 - i].out)
    ELSE FirstArchArm_bottom_up(full_arch, i + 1)

RECURSIVE FirstArchArm(_, _)
FirstArchArm(full_arch, i) ==
    IF i > Len(ArchArms) THEN None
    ELSE IF ArchArmMatches(ArchArms[i], full_arch) THEN Some(ArchArms[i].out)
    ELSE FirstArchArm(full_arch, i + 1)

\* a variant that falls back to the full architecture when no arm matches
parse_arch_default(full_arch) ==
    LET m == FirstArchArm(full_arch, 1)
    IN  IF m.some THEN m ELSE Some(full_arch)

parse_arch(full_arch) == FirstArchArm(full_arch, 1)

-----------------------------------------------------------------------------
(* parse_envabi: Some(<<env, abi>>) or None *)

EnvArm(pat, env, abi) == [pat |-> pat, env |-> env, abi |-> abi]

\* the literal arms ("Environments", "ABIs", "Badly named targets")
EnvabiArms == <<
    EnvArm(<<"m","s","v","c">>, <<"m","s","v","c">>, <<>>),
    EnvArm(<<"o","h","o","s">>, <<"o","h","o","s">>, <<>>),
    EnvArm(<<"q","n","x","7","0","0">>, <<"n","t","o","7","0">>, <<>>),
    EnvArm(<<"q","n","x","7","1","0","_","i","o","s","o","c","k">>, <<"n","t","o","7","1","_","i","o","s","o","c","k">>, <<>>),
    EnvArm(<<"q","n","x","7","1","0">>, <<"n","t","o","7","1">>, <<>>),
    EnvArm(<<"q","n","x","8","0","0">>, <<"n","t","o","8","0">>, <<>>),
    EnvArm(<<"s","g","x">>, <<"s","g","x">>, <<>>),
    EnvArm(<<"t","h","r","e","a","d","s">>, <<"t","h","r","e","a","d","s">>, <<>>),
    EnvArm(<<"a","b","i","6","4">>, <<>>, <<"a","b","i","6","4">>),
    EnvArm(<<"a","b","i","v","2">>, <<>>, <<"s","p","e">>),
    EnvArm(<<"e","a","b","i">>, <<>>, <<"e","a","b","i">>),
    EnvArm(<<"e","a","b","i","h","f">>, <<>>, <<"e","a","b","i","h","f">>),
    EnvArm(<<"m","a","c","a","b","i">>, <<>>, <<"m","a","c","a","b","i">>),
    EnvArm(<<"s","i","m">>, <<>>, <<"s","i","m">>),
    EnvArm(<<"s","o","f","t","f","l","o","a","t">>, <<>>, <<"s","o","f","t","f","l","o","a","t">>),
    EnvArm(<<"s","p","e">>, <<>>, <<"s","p","e">>),
    EnvArm(<<"x","3","2">>, <<>>, <<"x","3","2">>),
    EnvArm(<<"e","l","f">>, <<>>, <<>>),
    EnvArm(<<"f","r","e","e","s","t","a","n","d","i","n","g">>, <<>>, <<>>) >>

RECURSIVE FirstEnvabiArm(_, _)
FirstEnvabiArm(last_component, i) ==
    IF i > Len(EnvabiArms) THEN None
    ELSE IF last_component = EnvabiArms[i].pat
         THEN Some(<<EnvabiArms[i].env, EnvabiArms[i].abi>>)
    ELSE FirstEnvabiArm(last_component, i + 1)

\* a variant with an arm "none" => ("", "") among the environments
parse_envabi_none_token(last_component) ==
    IF last_component = <<"n","o","n","e">> THEN Some(<<<<>>, <<>>>>)
    ELSE IF starts_with(last_component, <<"g","n","u">>) THEN
        LET abi0 == strip_prefix(last_component, <<"g","n","u">>)
            abi == IF starts_with(abi0, <<"_">>) THEN strip_prefix(abi0, <<"_">>) ELSE abi0
        IN  Some(<<<<"g","n","u">>, abi>>)
    ELSE IF starts_with(last_component, <<"m","u","s","l">>) THEN
        Some(<<<<"m","u","s","l">>, strip_prefix(last_component, <<"m","u","s","l">>)>>)
    ELSE IF starts_with(last_component, <<"u","c","l","i","b","c">>) THEN
        Some(<<<<"u","c","l","i","b","c">>, strip_prefix(last_component, <<"u","c","l","i","b","c">>)>>)
    ELSE IF starts_with(last_component, <<"n","e","w","l","i","b">>) THEN
        Some(<<<<"n","e","w","l","i","b">>, strip_prefix(last_component, <<"n","e","w","l","i","b">>)>>)
    ELSE FirstEnvabiArm(last_component, 1)

parse_envabi(last_component) ==
    IF starts_with(last_component, <<"g","n","u">>) THEN
        LET abi0 == strip_prefix(last_component, <<"g","n","u">>)
            abi == IF starts_with(abi0, <<"_">>) THEN strip_prefix(abi0, <<"_">>) ELSE abi0
        IN  Some(<<<<"g","n","u">>, abi>>)
    ELSE IF starts_with(last_component, <<"m","u","s","l">>) THEN
        Some(<<<<"m","u","s","l">>, strip_prefix(last_component, <<"m","u","s","l">>)>>)
    ELSE IF starts_with(last_component, <<"u","c","l","i","b","c">>) THEN
        Some(<<<<"u","c","l","i","b","c">>, strip_prefix(last_component, <<"u","c","l","i","b","c">>)>>)
    ELSE IF starts_with(last_component, <<"n","e","w","l","i","b">>) THEN
        Some(<<<<"n","e","w","l","i","b">>, strip_prefix(last_component, <<"n","e","w","l","i","b">>)>>)
    ELSE FirstEnvabiArm(last_component, 1)

-----------------------------------------------------------------------------
(* Error::new(kind, format!(..)): the message is its format string and the  *)
(* values spliced into it (the triple, the variable name).                  *)

Error(kind, fmt, triple, name) ==
    Err(kind, [fmt |-> fmt, target |-> triple, name |-> name])

-----------------------------------------------------------------------------
(* TargetInfo::from_rustc_target, step by step *)

\* a variant that keeps an env/abi the last component already gave
OsImplied_only_when_empty(os, env, abi) ==
    IF os = <<"3","d","s">> /\ env = <<>> THEN <<<<"n","e","w","l","i","b">>, abi>>
    ELSE IF os = <<"v","x","w","o","r","k","s">> /\ env = <<>> THEN <<<<"g","n","u">>, abi>>
    ELSE IF os = <<"r","t","e","m","s">> /\ env = <<>> THEN <<<<"n","e","w","l","i","b">>, abi>>
    ELSE IF os = <<"e","s","p","i","d","f">> /\ env = <<>> THEN <<<<"n","e","w","l","i","b">>, abi>>
    ELSE IF os = <<"r","e","d","o","x">> /\ env = <<>> THEN <<<<"r","e","l","i","b","c">>, abi>>
    ELSE IF os = <<"a","i","x">> /\ abi = <<>> THEN <<env, <<"v","e","c","-","e","x","t","a","b","i">>>>
    ELSE <<env, abi>>

\* "Various environment/ABIs are determined based on OS name."
\* Returns <<env, abi>>.
OsImplied(os, env, abi) ==
    IF os = <<"3","d","s">> THEN <<<<"n","e","w","l","i","b">>, abi>>
    ELSE IF os = <<"v","x","w","o","r","k","s">> THEN <<<<"g","n","u">>, abi>>
    ELSE IF os = <<"r","t","e","m","s">> THEN <<<<"n","e","w","l","i","b">>, abi>>
    ELSE IF os = <<"e","s","p","i","d","f">> THEN <<<<"n","e","w","l","i","b">>, abi>>
    ELSE IF os = <<"r","e","d","o","x">> THEN <<<<"r","e","l","i","b","c">>, abi>>
    ELSE IF os = <<"a","i","x">> THEN <<env, <<"v","e","c","-","e","x","t","a","b","i">>>>
    ELSE <<env, abi>>

\* "Extra overrides for badly named targets.": triple -> abi
ExactTriples == <<
    <<<<"i","3","8","6","-","a","p","p","l","e","-","i","o","s">>, <<"s","i","m">>>>,
    <<<<"i","6","8","6","-","a","p","p","l","e","-","i","o","s">>, <<"s","i","m">>>>,
    <<<<"x","8","6","_","6","4","-","a","p","p","l","e","-","i","o","s">>, <<"s","i","m">>>>,
    <<<<"x","8","6","_","6","4","-","a","p","p","l","e","-","t","v","o","s">>, <<"s","i","m">>>>,
    <<<<"m","i","p","s","6","4","-","o","p","e","n","w","r","t","-","l","i","n","u","x","-","m","u","s","l">>, <<"a","b","i","6","4">>>>,
    <<<<"a","r","m","v","6","-","u","n","k","n","o","w","n","-","f","r","e","e","b","s","d">>, <<"e","a","b","i","h","f">>>>,
    <<<<"a","r","m","v","6","k","-","n","i","n","t","e","n","d","o","-","3","d","s">>, <<"e","a","b","i","h","f">>>>,
    <<<<"a","r","m","v","7","-","u","n","k","n","o","w","n","-","f","r","e","e","b","s","d">>, <<"e","a","b","i","h","f">>>>,
    <<<<"a","r","m","v","7","-","u","n","k","n","o","w","n","-","l","i","n","u","x","-","o","h","o","s">>, <<"e","a","b","i">>>>,
    <<<<"a","r","m","v","7","-","u","n","k","n","o","w","n","-","t","r","u","s","t","y">>, <<"e","a","b","i">>>>,
    <<<<"r","i","s","c","v","3","2","e","-","u","n","k","n","o","w","n","-","n","o","n","e","-","e","l","f">>, <<"i","l","p","3","2","e">>>>,
    <<<<"r","i","s","c","v","3","2","e","m","-","u","n","k","n","o","w","n","-","n","o","n","e","-","e","l","f">>, <<"i","l","p","3","2","e">>>>,
    <<<<"r","i","s","c","v","3","2","e","m","c","-","u","n","k","n","o","w","n","-","n","o","n","e","-","e","l","f">>, <<"i","l","p","3","2","e">>>> >>

\* a variant whose match lacks the "armv7-unknown-linux-ohos" | "armv7-unknown-trusty" arm
ExactOverride_missing_arm(triple, abi) ==
    IF \E i \in 1..Len(ExactTriples) :
          ExactTriples[i][1] = triple /\ ExactTriples[i][2] # <<"e","a","b","i">>
    THEN LET i == CHOOSE i \in 1..Len(ExactTriples) : ExactTriples[i][1] = triple
         IN  ExactTriples[i][2]
    ELSE abi

\* the abi after the override match
ExactOverride(triple, abi) ==
    IF \E i \in 1..Len(ExactTriples) : ExactTriples[i][1] = triple
    THEN LET i == CHOOSE i \in 1..Len(ExactTriples) : ExactTriples[i][1] = triple
         IN  ExactTriples[i][2]
    ELSE abi

\* the let os = match os { .. }: returns <<os, env, abi>>
OsAlias(os, env, abi) ==
    IF os = <<"3","d","s">> \/ os = <<"s","w","i","t","c","h">> THEN <<<<"h","o","r","i","z","o","n">>, env, abi>>
    ELSE IF os = <<"d","a","r","w","i","n">> THEN <<<<"m","a","c","o","s">>, env, abi>>
    ELSE IF starts_with(os, <<"w","a","s","i">>) THEN <<<<"w","a","s","i">>, strip_prefix(os, <<"w","a","s","i">>), abi>>
    ELSE IF os = <<"a","n","d","r","o","i","d","e","a","b","i">> THEN <<<<"a","n","d","r","o","i","d">>, env, <<"e","a","b","i">>>>
    ELSE <<os, env, abi>>

\* a variant without the "openwrt" => "unknown" arm
VendorNorm_openwrt_kept(vendor, os) ==
    IF starts_with(vendor, <<"e","s","p">>) THEN <<"e","s","p","r","e","s","s","i","f">>
    ELSE IF vendor = <<"l","i","n","u","x">> /\ (os = <<"a","n","d","r","o","i","d">> \/ os = <<"a","n","d","r","o","i","d","e","a","b","i">>) THEN <<"u","n","k","n","o","w","n">>
    ELSE vendor

\* the let vendor = match components.next().unwrap_or("unknown") { .. };
\* os is the OS after OsAlias
VendorNorm(vendor, os) ==
    IF starts_with(vendor, <<"e","s","p">>) THEN <<"e","s","p","r","e","s","s","i","f">>
    ELSE IF vendor = <<"o","p","e","n","w","r","t">> THEN <<"u","n","k","n","o","w","n">>
    ELSE IF vendor = <<"l","i","n","u","x">> /\ (os = <<"a","n","d","r","o","i","d">> \/ os = <<"a","n","d","r","o","i","d","e","a","b","i">>) THEN <<"u","n","k","n","o","w","n">>
    ELSE vendor

\* a variant that matches "uwp" only
VendorAbi_uwp_only(vendor, abi) ==
    IF vendor = <<"u","w","p">> THEN vendor ELSE abi

\* if matches!(vendor, "uwp" | "fortanix") { abi = vendor; }
VendorAbi(vendor, abi) ==
    IF vendor = <<"u","w","p">> \/ vendor = <<"f","o","r","t","a","n","i","x">> THEN vendor ELSE abi

\* a variant that only counts the components left over
Leftover_count_only(triple, r, used, has_envabi) ==
    IF Len(r) > used + 1
    THEN Error("InvalidTarget", "too many components in target {target}", triple, "")
    ELSE Error("UnknownTarget", "unknown environment/ABI {envabi_or_os} in target {target}",
               triple, "")

\* the check for components left over after the vendor: r is the reversed
\* iterator's content, used the number of components consumed so far
Leftover(triple, r, used, has_envabi) ==
    IF has_envabi \/ Len(r) > used + 1
    THEN Error("InvalidTarget", "too many components in target {target}", triple, "")
    ELSE Error("UnknownTarget", "unknown environment/ABI {envabi_or_os} in target {target}",
               triple, "")

\* from the OS-implied defaults to the end; r is the reversed iterator's
\* content, r[1] .. r[n] already consumed
Finish(triple, full_arch, arch, r, n, os0, env0, abi0, has_envabi) ==
    LET implied == OsImplied(os0, env0, abi0)
        abi1 == ExactOverride(triple, implied[2])
        alias == OsAlias(os0, implied[1], abi1)
        os == alias[1]
        env == alias[2]
        vendor == VendorNorm(IF Len(r) > n THEN r[n + 1] ELSE <<"u","n","k","n","o","w","n">>, os)
        abi == VendorAbi(vendor, alias[3])
        used == IF Len(r) > n THEN n + 1 ELSE n
    IN  IF Len(r) > used
        THEN Leftover(triple, r, used, has_envabi)
        ELSE Ok(TargetInfo(full_arch, arch, vendor, os, env, abi))

from_rustc_target(triple) ==
    IF triple = <<"x","8","6","_","6","4","-","u","n","k","n","o","w","n","-","l","i","n","u","x","-","n","o","n","e">>
    THEN Ok(TargetInfo(<<"x","8","6","_","6","4">>, <<"x","8","6","_","6","4">>, <<"u","n","k","n","o","w","n">>, <<"l","i","n","u","x">>, <<>>, <<>>))
    ELSE
    LET components == split(triple, "-")
    IN  IF components = << >>
        THEN Error("InvalidTarget", "target {target} was empty", triple, "")
        ELSE
    LET full_arch == Head(components)
        arch == parse_arch(full_arch)
    IN  IF ~arch.some
        THEN Error("UnknownTarget", "target {target} had an unknown architecture", triple, "")
        ELSE
    LET r == rev(Tail(components))
    IN  IF r = << >>
        THEN Error("InvalidTarget", "target {target} must have at least two components",
                   triple, "")
        ELSE
    LET envabi_or_os == r[1]
        envabi == parse_envabi(envabi_or_os)
    IN  IF envabi.some
        THEN IF Len(r) < 2
             THEN Error("InvalidTarget", "target {target} must have an OS component",
                        triple, "")
             ELSE Finish(triple, full_arch, arch.v, r, 2, r[2], envabi.v[1], envabi.v[2], TRUE)
        ELSE Finish(triple, full_arch, arch.v, r, 1, envabi_or_os, <<>>, <<>>, FALSE)

-----------------------------------------------------------------------------
(* TargetInfo::llvm_target: the five matches, then the format! *)

llvm_arch(t) ==
    IF starts_with(t.full_arch, <<"r","i","s","c","v","3","2">>) THEN <<"r","i","s","c","v","3","2">>
    ELSE IF starts_with(t.full_arch, <<"r","i","s","c","v","6","4">>) THEN <<"r","i","s","c","v","6","4">>
    ELSE IF t.full_arch = <<"a","a","r","c","h","6","4">> /\ t.vendor = <<"a","p","p","l","e">> THEN <<"a","r","m","6","4">>
    ELSE IF t.full_arch = <<"a","r","m","v","7">> /\ t.vendor = <<"s","o","n","y">> THEN <<"t","h","u","m","b","v","7","a">>
    ELSE t.full_arch

llvm_vendor(t) ==
    IF t.vendor = <<"k","m","c">> \/ t.vendor = <<"n","i","n","t","e","n","d","o">> THEN <<"u","n","k","n","o","w","n">>
    ELSE IF t.vendor = <<"u","n","k","n","o","w","n">> /\ t.os = <<"a","n","d","r","o","i","d">> THEN <<"l","i","n","u","x">>
    ELSE IF t.vendor = <<"u","w","p">> THEN <<"p","c">>
    ELSE IF t.vendor = <<"e","s","p","r","e","s","s","i","f">> THEN <<>>
    ELSE IF t.arch = <<"m","s","p","4","3","0">> THEN <<>>
    ELSE t.vendor

\* a variant without the "macos" => "macosx" arm
llvm_os_macos_kept(t) ==
    IF t.os = <<"v","i","s","i","o","n","o","s">> THEN <<"x","r","o","s">>
    ELSE IF t.os = <<"u","e","f","i">> THEN <<"w","i","n","d","o","w","s">>
    ELSE IF t.os \in {<<"s","o","l","i","d","_","a","s","p","3">>, <<"h","o","r","i","z","o","n">>, <<"t","e","e","o","s">>, <<"n","u","t","t","x">>, <<"e","s","p","i","d","f">>} THEN <<"n","o","n","e">>
    ELSE IF t.os = <<"n","t","o">> THEN <<"u","n","k","n","o","w","n">>
    ELSE IF t.os = <<"t","r","u","s","t","y">> THEN <<"u","n","k","n","o","w","n">>
    ELSE t.os

llvm_os(t) ==
    IF t.os = <<"m","a","c","o","s">> THEN <<"m","a","c","o","s","x">>
    ELSE IF t.os = <<"v","i","s","i","o","n","o","s">> THEN <<"x","r","o","s">>
    ELSE IF t.os = <<"u","e","f","i">> THEN <<"w","i","n","d","o","w","s">>
    ELSE IF t.os \in {<<"s","o","l","i","d","_","a","s","p","3">>, <<"h","o","r","i","z","o","n">>, <<"t","e","e","o","s">>, <<"n","u","t","t","x">>, <<"e","s","p","i","d","f">>} THEN <<"n","o","n","e">>
    ELSE IF t.os = <<"n","t","o">> THEN <<"u","n","k","n","o","w","n">>
    ELSE IF t.os = <<"t","r","u","s","t","y">> THEN <<"u","n","k","n","o","w","n">>
    ELSE t.os

\* version.unwrap_or("")
llvm_version(version) == IF version.some THEN version.v ELSE <<>>

llvm_env(t) ==
    IF t.env \in {<<"n","e","w","l","i","b">>, <<"n","t","o","7","0">>, <<"n","t","o","7","1">>, <<"n","t","o","7","1","_","i","o","s","o","c","k">>, <<"p","1">>, <<"p","2">>,
                  <<"r","e","l","i","b","c">>, <<"s","g","x">>, <<"u","c","l","i","b","c">>}
    THEN <<>>
    ELSE t.env

llvm_abi(t) ==
    IF t.abi = <<"s","i","m">> THEN <<"s","i","m","u","l","a","t","o","r">>
    ELSE IF t.abi \in {<<"l","l","v","m">>, <<"s","o","f","t","f","l","o","a","t">>, <<"u","w","p">>, <<"v","e","c","-","e","x","t","a","b","i">>} THEN <<>>
    ELSE IF t.abi = <<"i","l","p","3","2">> THEN <<"_","i","l","p","3","2">>
    ELSE IF t.abi = <<"a","b","i","6","4">> THEN <<>>
    ELSE t.abi

\* a variant whose ("", env, abi) arm also takes the records with a vendor
llvm_format_vendor_dropped(arch, vendor, os, version, env, abi) ==
    IF vendor = <<>> /\ env = <<>> /\ abi = <<>>
    THEN arch \o <<"-">> \o os \o version
    ELSE IF env # <<>> \/ abi # <<>>
    THEN arch \o <<"-">> \o os \o version \o <<"-">> \o env \o abi
    ELSE arch \o <<"-">> \o vendor \o <<"-">> \o os \o version

\* the match (vendor, env, abi) { .. } over the four format! strings
llvm_format(arch, vendor, os, version, env, abi) ==
    IF vendor = <<>> /\ env = <<>> /\ abi = <<>>
    THEN arch \o <<"-">> \o os \o version
    ELSE IF vendor = <<>>
    THEN arch \o <<"-">> \o os \o version \o <<"-">> \o env \o abi
    ELSE IF env = <<>> /\ abi = <<>>
    THEN arch \o <<"-">> \o vendor \o <<"-">> \o os \o version
    ELSE arch \o <<"-">> \o vendor \o <<"-">> \o os \o version \o <<"-">> \o env \o abi

llvm_target(t, version) ==
    llvm_format(llvm_arch(t), llvm_vendor(t), llvm_os(t), llvm_version(version),
                llvm_env(t), llvm_abi(t))

-----------------------------------------------------------------------------
(* The environment resolver *)

EnvNames == {"TARGET", "CARGO_CFG_TARGET_ARCH", "CARGO_CFG_TARGET_VENDOR",
             "CARGO_CFG_TARGET_OS", "CARGO_CFG_TARGET_ENV", "CARGO_CFG_TARGET_ABI"}

\* a variant that prefers the fallback record to the variable
cargo_env_fallback_first(e, target_triple, name, fallback) ==
    IF fallback.some THEN Ok(fallback.v)
    ELSE IF e[name].some THEN Ok(e[name].v)
    ELSE Error("EnvVarNotFound",
               "did not find fallback information for target {target_triple}, and failed reading {name}: {err}",
               target_triple, name)

\* the closure cargo_env: e is the environment, fallback None or Some(field)
cargo_env(e, target_triple, name, fallback) ==
    IF e[name].some THEN Ok(e[name].v)
    ELSE IF fallback.some THEN Ok(fallback.v)
    ELSE Error("EnvVarNotFound",
               "did not find fallback information for target {target_triple}, and failed reading {name}: {err}",
               target_triple, name)

\* Option::map on the fallback record
ft_map(ft, field) == IF ft.ok THEN Some(ft.v[field]) ELSE None

\* the five cargo_env reads and the record built from them; ft is the
\* Result of decomposing the primary triple
merge_fields(e, target_triple, full_arch, ft) ==
    LET arch == cargo_env(e, target_triple, "CARGO_CFG_TARGET_ARCH", ft_map(ft, "arch"))
        vendor == cargo_env(e, target_triple, "CARGO_CFG_TARGET_VENDOR", ft_map(ft, "vendor"))
        os == cargo_env(e, target_triple, "CARGO_CFG_TARGET_OS", ft_map(ft, "os"))
        env == cargo_env(e, target_triple, "CARGO_CFG_TARGET_ENV", ft_map(ft, "env"))
        abi0 == cargo_env(e, target_triple, "CARGO_CFG_TARGET_ABI", ft_map(ft, "abi"))
        abi == IF abi0.ok THEN abi0.v ELSE <<>>
    IN  IF ~arch.ok THEN arch
        ELSE IF ~vendor.ok THEN vendor
        ELSE IF ~os.ok THEN os
        ELSE IF ~env.ok THEN env
        ELSE Ok(TargetInfo(full_arch, arch.v, vendor.v, os.v, env.v, abi))

\* a variant that returns the decomposer's error instead of dropping it
from_cargo_environment_variables_propagating(e) ==
    IF ~e["TARGET"].some
    THEN Error("EnvVarNotFound", "failed reading TARGET: {err}", << >>, "TARGET")
    ELSE
    LET target_triple == e["TARGET"].v
        so == split_once(target_triple, "-")
        ft == from_rustc_target(target_triple)
    IN  IF ~so.some
        THEN Error("InvalidTarget", "target {target_triple} had an unknown architecture",
                   target_triple, "")
        ELSE IF ~ft.ok THEN ft
        ELSE merge_fields(e, target_triple, so.v[1], ft)

\* TargetInfoParserInner::from_cargo_environment_variables run on environment e
from_cargo_environment_variables(e) ==
    IF ~e["TARGET"].some
    THEN Error("EnvVarNotFound", "failed reading TARGET: {err}", << >>, "TARGET")
    ELSE
    LET target_triple == e["TARGET"].v
        so == split_once(target_triple, "-")
    IN  IF ~so.some
        THEN Error("InvalidTarget", "target {target_triple} had an unknown architecture",
                   target_triple, "")
        ELSE merge_fields(e, target_triple, so.v[1], from_rustc_target(target_triple))

\* the match in parse_from_cargo_environment_variables: the cached
\* Result<TargetInfoParserInner, Error> as a Result<TargetInfo, Error>
cached_result(cell) ==
    IF cell.ok
    THEN Ok(TargetInfo(cell.v.full_arch, cell.v.arch, cell.v.vendor,
                       cell.v.os, cell.v.env, cell.v.abi))
    ELSE Err(cell.kind, cell.msg)

-----------------------------------------------------------------------------
(* Bounds and inputs *)

MaxComponents == 5   \* components of the free-form triples
NumThreads == 2      \* threads sharing one TargetInfoParser
MaxCalls == 2        \* calls of parse_from_cargo_environment_variables in a run
MaxChanges == 1      \* changes made to the environment in a run

RECURSIVE Join(_)
Join(q) == IF Len(q) = 1 THEN q[1] ELSE q[1] \o <<"-">> \o Join(Tail(q))

Opt(S) == {<< >>} \cup {<<x>> : x \in S}

InArchs == {<<"x","8","6","_","6","4">>, <<"i","6","8","6">>, <<"a","a","r","c","h","6","4">>, <<"a","r","m","v","7">>, <<"b","o","g","u","s","a","r","c","h">>, <<>>}

InVendors == {<<"u","n","k","n","o","w","n">>, <<"a","p","p","l","e">>, <<"p","c">>, <<"u","w","p">>, <<"f","o","r","t","a","n","i","x">>, <<"e","s","p","3","2">>,
              <<"o","p","e","n","w","r","t">>, <<"l","i","n","u","x">>, <<>>}

InOss == {<<"l","i","n","u","x">>, <<"n","o","n","e">>, <<"w","i","n","d","o","w","s">>, <<"d","a","r","w","i","n">>, <<"i","o","s">>, <<"3","d","s">>, <<"v","x","w","o","r","k","s">>,
          <<"r","t","e","m","s">>, <<"e","s","p","i","d","f">>, <<"r","e","d","o","x">>, <<"a","i","x">>, <<"w","a","s","i","p","1">>, <<"a","n","d","r","o","i","d">>,
          <<"a","n","d","r","o","i","d","e","a","b","i">>, <<>>}

InEnvs == {<<"g","n","u">>, <<"g","n","u","e","a","b","i","h","f">>, <<"g","n","u","_","i","l","p","3","2">>, <<"m","u","s","l">>, <<"n","e","w","l","i","b","e","a","b","i","h","f">>, <<"m","s","v","c">>,
           <<"s","g","x">>, <<"e","a","b","i">>, <<"s","i","m">>, <<"a","b","i","v","2">>, <<"e","l","f">>, <<"n","o","n","e">>, <<>>}

\* arch [-vendor] -os [-envabi]
ShapedTriples ==
    {Join(<<a>> \o v \o <<o>> \o e) :
        a \in InArchs, v \in Opt(InVendors), o \in InOss, e \in Opt(InEnvs)}

FreeTokens == {<<>>, <<"x","8","6","_","6","4">>, <<"l","i","n","u","x">>, <<"g","n","u">>, <<"f","o","o">>}

\* any 1 .. MaxComponents tokens
FreeTriples ==
    UNION {{Join(q) : q \in [1..n -> FreeTokens]} : n \in 1..MaxComponents}

\* the triples the source names: the special case, the override table, the tests
ListedTriples ==
    {ExactTriples[i][1] : i \in 1..Len(ExactTriples)} \cup
    {<<>>, <<"x","8","6","_","6","4">>, <<"a","-","b","-","c","-","d","-","e","-","f">>, <<"b","o","g","u","s","a","r","c","h","-","u","n","k","n","o","w","n","-","l","i","n","u","x","-","g","n","u">>,
     <<"x","8","6","_","6","4","-","u","n","k","n","o","w","n","-","l","i","n","u","x","-","n","o","n","e">>,
     <<"a","a","r","c","h","6","4","-","u","n","k","n","o","w","n","-","l","i","n","u","x","-","g","n","u">>, <<"a","a","r","c","h","6","4","-","a","p","p","l","e","-","d","a","r","w","i","n">>, <<"i","6","8","6","-","p","c","-","w","i","n","d","o","w","s","-","g","n","u">>,
     <<"i","6","8","6","-","p","c","-","w","i","n","d","o","w","s","-","m","s","v","c">>, <<"i","6","8","6","-","u","n","k","n","o","w","n","-","l","i","n","u","x","-","g","n","u">>, <<"x","8","6","_","6","4","-","a","p","p","l","e","-","d","a","r","w","i","n">>,
     <<"x","8","6","_","6","4","-","p","c","-","w","i","n","d","o","w","s","-","g","n","u">>, <<"x","8","6","_","6","4","-","p","c","-","w","i","n","d","o","w","s","-","m","s","v","c">>, <<"x","8","6","_","6","4","-","u","n","k","n","o","w","n","-","l","i","n","u","x","-","g","n","u">>,
     <<"a","a","r","c","h","6","4","-","u","n","k","n","o","w","n","-","n","o","n","e","-","g","n","u">>, <<"a","a","r","c","h","6","4","-","u","w","p","-","w","i","n","d","o","w","s","-","g","n","u">>, <<"a","r","m","-","f","r","c","-","l","i","n","u","x","-","g","n","u","e","a","b","i">>,
     <<"a","r","m","-","u","n","k","n","o","w","n","-","n","e","t","b","s","d","-","e","a","b","i">>, <<"a","r","m","v","7","n","e","o","n","-","u","n","k","n","o","w","n","-","l","i","n","u","x","-","g","n","u","e","a","b","i","h","f">>,
     <<"a","r","m","v","7","n","e","o","n","-","u","n","k","n","o","w","n","-","l","i","n","u","x","-","m","u","s","l","e","a","b","i","h","f">>, <<"t","h","u","m","b","v","7","-","u","n","k","n","o","w","n","-","l","i","n","u","x","-","g","n","u","e","a","b","i","h","f">>,
     <<"t","h","u","m","b","v","7","-","u","n","k","n","o","w","n","-","l","i","n","u","x","-","m","u","s","l","e","a","b","i","h","f">>, <<"a","r","m","v","7","-","a","p","p","l","e","-","i","o","s">>, <<"w","a","s","m","3","2","-","w","a","s","i">>,
     <<"x","8","6","_","6","4","-","r","u","m","p","r","u","n","-","n","e","t","b","s","d">>, <<"x","8","6","_","6","4","-","u","n","k","n","o","w","n","-","l","i","n","u","x">>, <<"x","8","6","_","6","4","-","a","l","p","i","n","e","-","l","i","n","u","x","-","m","u","s","l">>,
     <<"x","8","6","_","6","4","-","c","h","i","m","e","r","a","-","l","i","n","u","x","-","m","u","s","l">>, <<"x","8","6","_","6","4","-","f","o","x","k","i","t","-","l","i","n","u","x","-","m","u","s","l">>, <<"a","r","m","-","p","o","k","y","-","l","i","n","u","x","-","g","n","u","e","a","b","i">>,
     <<"x","8","6","_","6","4","-","u","n","k","n","o","w","n","-","m","o","t","u","r","u","s">>}

\* sub-architectures, each with -unknown-linux-gnu
InVariants ==
    {<<"m","i","p","s","i","s","a","3","2","r","6">>, <<"m","i","p","s","i","s","a","3","2","r","6","e","l">>, <<"m","i","p","s","i","s","a","6","4","r","6">>, <<"m","i","p","s","i","s","a","6","4","r","6","e","l">>, <<"m","i","p","s","6","4">>,
     <<"m","i","p","s","6","4","e","l">>, <<"m","i","p","s">>, <<"m","i","p","s","e","l">>, <<"l","o","o","n","g","a","r","c","h","6","4">>, <<"l","o","o","n","g","a","r","c","h","3","2">>, <<"p","o","w","e","r","p","c","6","4">>,
     <<"p","o","w","e","r","p","c","6","4","l","e">>, <<"p","o","w","e","r","p","c">>, <<"p","o","w","e","r","p","c","s","p","e">>, <<"p","p","c","6","4">>, <<"p","p","c","6","4","l","e">>, <<"p","p","c">>, <<"x","8","6","_","6","4">>,
     <<"x","8","6","_","6","4","h">>, <<"i","3","8","6">>, <<"i","5","8","6">>, <<"i","6","8","6">>, <<"a","r","m","6","4","e","c">>, <<"a","a","r","c","h","6","4">>, <<"a","a","r","c","h","6","4","_","b","e">>,
     <<"a","r","m","6","4">>, <<"a","r","m","6","4","e">>, <<"a","r","m","6","4","_","3","2">>, <<"a","r","m","6","4","e","c","x">>, <<"a","r","m">>, <<"a","r","m","v","7","s">>, <<"a","r","m","e","b">>,
     <<"t","h","u","m","b","v","4","t">>, <<"t","h","u","m","b","v","7","a">>, <<"r","i","s","c","v","6","4","g","c">>, <<"r","i","s","c","v","3","2","i","m","a","c">>, <<"w","a","s","m","6","4">>, <<"w","a","s","m","3","2">>,
     <<"w","a","s","m","3","2","v","1">>, <<"a","s","m","j","s">>, <<"n","v","p","t","x","6","4">>, <<"n","v","p","t","x">>, <<"b","p","f","e","b">>, <<"b","p","f","e","l">>, <<"p","u","l","l","e","y","6","4">>,
     <<"p","u","l","l","e","y","3","2">>, <<"c","l","e","v","e","r">>, <<"s","p","a","r","c">>, <<"s","p","a","r","c","v","7">>, <<"s","p","a","r","c","v","8">>, <<"s","p","a","r","c","6","4">>, <<"s","p","a","r","c","v","9">>,
     <<"a","m","d","g","c","n">>, <<"a","v","r">>, <<"m","s","p","4","3","0">>, <<"s","3","9","0","x">>, <<"s","p","a","r","c","v","9","1">>, <<"i","8","6">>, <<"i">>}

VariantTriples == {Join(<<a, <<"u","n","k","n","o","w","n">>, <<"l","i","n","u","x">>, <<"g","n","u">>>>) : a \in InVariants}

\* triples whose records reach the arms of llvm_target
EncoderTriples ==
    {Join(<<a>> \o v \o <<o>> \o e) :
        a \in {<<"a","a","r","c","h","6","4">>, <<"a","r","m","v","7">>, <<"m","s","p","4","3","0">>, <<"r","i","s","c","v","3","2","i","m","a","c">>, <<"r","i","s","c","v","6","4","g","c">>},
        v \in Opt({<<"a","p","p","l","e">>, <<"s","o","n","y">>, <<"k","m","c">>, <<"n","i","n","t","e","n","d","o">>, <<"u","w","p">>, <<"e","s","p","3","2">>}),
        o \in {<<"l","i","n","u","x">>, <<"d","a","r","w","i","n">>, <<"v","i","s","i","o","n","o","s">>, <<"u","e","f","i">>, <<"s","o","l","i","d","_","a","s","p","3">>, <<"n","t","o">>,
               <<"t","r","u","s","t","y">>, <<"a","n","d","r","o","i","d">>, <<"i","o","s">>, <<"w","a","s","i","p","2">>},
        e \in Opt({<<"g","n","u">>, <<"g","n","u","l","l","v","m">>, <<"g","n","u","_","i","l","p","3","2">>, <<"g","n","u","e","a","b","i">>, <<"u","c","l","i","b","c">>, <<"q","n","x","7","1","0">>,
                   <<"a","b","i","6","4">>, <<"s","o","f","t","f","l","o","a","t">>, <<"s","i","m">>})}

\* the version passed to llvm_target
Versions == {None, Some(<<"1","4",".","0">>)}

Triples == ShapedTriples \cup FreeTriples \cup ListedTriples \cup VariantTriples
               \cup EncoderTriples

Threads == 1..NumThreads

\* values of the primary triple variable
TargetValues == {<<"x","8","6","_","6","4","-","u","n","k","n","o","w","n","-","l","i","n","u","x","-","g","n","u">>, <<"a","r","m","v","7","-","u","n","k","n","o","w","n","-","l","i","n","u","x","-","g","n","u","e","a","b","i","h","f">>,
                 <<"b","o","g","u","s","a","r","c","h","-","u","n","k","n","o","w","n","-","l","i","n","u","x","-","g","n","u">>, <<"x","8","6","_","6","4">>, <<"-","u","n","k","n","o","w","n","-","l","i","n","u","x","-","g","n","u">>,
                 <<"m","y","t","a","r","g","e","t","-">>}

\* the value an override variable takes when set
OverrideValue(name) ==
    IF name = "CARGO_CFG_TARGET_ARCH" THEN <<"r","i","s","c","v","6","4">>
    ELSE IF name = "CARGO_CFG_TARGET_VENDOR" THEN <<"a","c","m","e">>
    ELSE IF name = "CARGO_CFG_TARGET_OS" THEN <<"h","e","r","m","i","t">>
    ELSE IF name = "CARGO_CFG_TARGET_ENV" THEN <<"m","u","s","l">>
    ELSE <<"s","o","f","t","f","l","o","a","t">>

EnvValues(name) ==
    {None} \cup (IF name = "TARGET" THEN {Some(v) : v \in TargetValues}
                 ELSE {Some(OverrideValue(name))})

Overrides == EnvNames \ {"TARGET"}

\* every environment over these values
AllEnvirons ==
    {[n \in EnvNames |-> IF n = "TARGET" THEN t
                         ELSE IF n \in S THEN Some(OverrideValue(n)) ELSE None] :
        t \in EnvValues("TARGET"), S \in SUBSET Overrides}

NoOverrides == [n \in EnvNames |-> None]
AllOverrides == [n \in EnvNames |-> Some(OverrideValue(n))]

\* the environments the concurrent runs start from: the primary variable
\* absent, decomposable or without a hyphen; the overrides all absent or all set
StartTargets == {None, Some(<<"x","8","6","_","6","4","-","u","n","k","n","o","w","n","-","l","i","n","u","x","-","g","n","u">>), Some(<<"x","8","6","_","6","4">>)}

StartEnvirons ==
    {[o EXCEPT !["TARGET"] = t] : o \in {NoOverrides, AllOverrides}, t \in StartTargets}

\* the values a variable is changed to while threads resolve
ChangedValues(name) ==
    IF name = "TARGET" THEN StartTargets ELSE {None, Some(OverrideValue(name))}

-----------------------------------------------------------------------------
(* The decomposer as a state machine: one call on a chosen triple *)

ResolverIdle ==
    /\ once = "incomplete"
    /\ slot = << >>
    /\ pc = [t \in Threads |-> "idle"]
    /\ tmp = [t \in Threads |-> << >>]
    /\ how = [t \in Threads |-> "none"]
    /\ ret = [t \in Threads |-> << >>]
    /\ first = << >>
    /\ seen = << >>
    /\ runs = 0
    /\ commits = 0
    /\ calls = 0
    /\ changes = 0

Init ==
    /\ target \in Triples
    /\ dres = << >>
    /\ llvm = << >>
    /\ environ = NoOverrides
    /\ ResolverIdle

Decompose ==
    /\ dres = << >>
    /\ dres' = <<from_rustc_target(target)>>
    /\ UNCHANGED <<target, llvm, rvars>>

\* llvm_target called on the record the decomposer returned
Encode(version) ==
    /\ dres # << >>
    /\ dres[1].ok
    /\ llvm = << >>
    /\ llvm' = <<[version |-> version, out |-> llvm_target(dres[1].v, version)]>>
    /\ UNCHANGED <<target, dres, rvars>>

Next ==
    \/ Decompose
    \/ \E version \in Versions : Encode(version)

Spec == Init /\ [][Next]_vars

-----------------------------------------------------------------------------
(* The resolver as a state machine.  utilities::OnceLock::get_or_init is     *)
(* a Once (incomplete -> running -> complete) guarding a value slot: the    *)
(* caller that finds it incomplete runs the closure and writes the slot,    *)
(* a caller that finds it running blocks until it is complete, and every    *)
(* caller then reads the slot.                                              *)

\* a variant of OnceBegin that does not exclude a caller already running the closure
OnceBegin_unguarded(t) ==
    /\ pc[t] = "idle"
    /\ calls < MaxCalls
    /\ once # "complete"
    /\ once' = "running"
    /\ pc' = [pc EXCEPT ![t] = "init"]
    /\ how' = [how EXCEPT ![t] = "init"]
    /\ calls' = calls + 1
    /\ UNCHANGED <<dvars, environ, slot, tmp, ret, first, seen, runs, commits, changes>>

\* get_or_init, Once incomplete: this caller will run the closure
OnceBegin(t) ==
    /\ pc[t] = "idle"
    /\ calls < MaxCalls
    /\ once = "incomplete"
    /\ once' = "running"
    /\ pc' = [pc EXCEPT ![t] = "init"]
    /\ how' = [how EXCEPT ![t] = "init"]
    /\ calls' = calls + 1
    /\ UNCHANGED <<dvars, environ, slot, tmp, ret, first, seen, runs, commits, changes>>

\* get_or_init, Once running: this caller blocks
OnceBlock(t) ==
    /\ pc[t] = "idle"
    /\ calls < MaxCalls
    /\ once = "running"
    /\ pc' = [pc EXCEPT ![t] = "wait"]
    /\ how' = [how EXCEPT ![t] = "wait"]
    /\ calls' = calls + 1
    /\ UNCHANGED <<dvars, environ, once, slot, tmp, ret, first, seen, runs, commits, changes>>

\* a blocked caller resumes once the Once is complete
OnceWake(t) ==
    /\ pc[t] = "wait"
    /\ once = "complete"
    /\ pc' = [pc EXCEPT ![t] = "get"]
    /\ UNCHANGED <<dvars, environ, once, slot, tmp, how, ret, first, seen, runs, commits,
                   calls, changes>>

\* get_or_init, Once complete: the closure is not run
OnceDone(t) ==
    /\ pc[t] = "idle"
    /\ calls < MaxCalls
    /\ once = "complete"
    /\ pc' = [pc EXCEPT ![t] = "get"]
    /\ how' = [how EXCEPT ![t] = "fast"]
    /\ calls' = calls + 1
    /\ UNCHANGED <<dvars, environ, once, slot, tmp, ret, first, seen, runs, commits, changes>>

\* the closure: TargetInfoParserInner::from_cargo_environment_variables.
\* Its six reads of the environment are one step; a change of the
\* environment comes before or after them.
RunInit(t) ==
    /\ pc[t] = "init"
    /\ tmp' = [tmp EXCEPT ![t] = <<from_cargo_environment_variables(environ)>>]
    /\ seen' = Append(seen, environ)
    /\ runs' = runs + 1
    /\ pc' = [pc EXCEPT ![t] = "write"]
    /\ UNCHANGED <<dvars, environ, once, slot, how, ret, first, commits, calls, changes>>

\* the closure's value is written to the slot and the Once completes
OnceWrite(t) ==
    /\ pc[t] = "write"
    /\ slot' = tmp[t]
    /\ once' = "complete"
    /\ commits' = commits + 1
    /\ pc' = [pc EXCEPT ![t] = "get"]
    /\ UNCHANGED <<dvars, environ, tmp, how, ret, first, seen, runs, calls, changes>>

\* what a call returns: r the Result, how the path taken, at the number of
\* environment changes made before it returned
Returned(t, r) ==
    [r |-> r, how |-> how[t], at |-> changes]

\* a variant of Get that computes the result again instead of reading the cache
Get_uncached(t) ==
    /\ pc[t] = "get"
    /\ LET out == Returned(t, cached_result(from_cargo_environment_variables(environ)))
       IN  /\ ret' = [ret EXCEPT ![t] = <<out>>]
           /\ first' = IF first = << >> THEN <<out>> ELSE first
    /\ pc' = [pc EXCEPT ![t] = "idle"]
    /\ UNCHANGED <<dvars, environ, once, slot, tmp, how, seen, runs, commits, calls, changes>>

\* the match on the cached value, and the return
Get(t) ==
    /\ pc[t] = "get"
    /\ LET out == Returned(t, cached_result(slot[1]))
       IN  /\ ret' = [ret EXCEPT ![t] = <<out>>]
           /\ first' = IF first = << >> THEN <<out>> ELSE first
    /\ pc' = [pc EXCEPT ![t] = "idle"]
    /\ UNCHANGED <<dvars, environ, once, slot, tmp, how, seen, runs, commits, calls, changes>>

\* another part of the process sets or removes a variable
SetEnv(n, v) ==
    /\ changes < MaxChanges
    /\ environ[n] # v
    /\ environ' = [environ EXCEPT ![n] = v]
    /\ changes' = changes + 1
    /\ UNCHANGED <<dvars, once, slot, pc, tmp, how, ret, first, seen, runs, commits, calls>>

InitResolver ==
    /\ target = << >>
    /\ dres = << >>
    /\ llvm = << >>
    /\ environ \in StartEnvirons
    /\ ResolverIdle

NextResolver ==
    \/ \E t \in Threads : OnceBegin(t)
    \/ \E t \in Threads : OnceBlock(t)
    \/ \E t \in Threads : OnceWake(t)
    \/ \E t \in Threads : OnceDone(t)
    \/ \E t \in Threads : RunInit(t)
    \/ \E t \in Threads : OnceWrite(t)
    \/ \E t \in Threads : Get(t)
    \/ \E n \in EnvNames : \E v \in ChangedValues(n) : SetEnv(n, v)

SpecResolver == InitResolver /\ [][NextResolver]_vars

\* one thread resolving in each environment, the environment left alone
InitEnv ==
    /\ target = << >>
    /\ dres = << >>
    /\ llvm = << >>
    /\ environ \in AllEnvirons
    /\ ResolverIdle

NextEnv ==
    \/ OnceBegin(1)
    \/ RunInit(1)
    \/ OnceWrite(1)
    \/ OnceDone(1)
    \/ Get(1)

SpecEnv == InitEnv /\ [][NextEnv]_vars

-----------------------------------------------------------------------------
(* Properties of the decomposer (specification Spec) *)

Decomposed == dres # << >>
DOk == Decomposed /\ dres[1].ok
DErr(kind) == Decomposed /\ ~dres[1].ok /\ dres[1].kind = kind

SpecialTriple == <<"x","8","6","_","6","4","-","u","n","k","n","o","w","n","-","l","i","n","u","x","-","n","o","n","e">>

\* C1: decomposing each of "", "x86_64" and "a-b-c-d-e-f" fails with
\* InvalidTarget.
C1_MalformedAreInvalidTarget ==
    (Decomposed /\ target \in {<<>>, <<"x","8","6","_","6","4">>, <<"a","-","b","-","c","-","d","-","e","-","f">>})
        => DErr("InvalidTarget")

HasEmptyComponent(triple) ==
    LET c == split(triple, "-") IN \E i \in 1..Len(c) : c[i] = <<>>

\* C2: decomposing a triple with an empty hyphen-delimited component fails
\* with InvalidTarget, and no record returned has an empty full_arch, vendor
\* or os.
C2_EmptyComponentIsInvalidTarget ==
    /\ (Decomposed /\ HasEmptyComponent(target)) => DErr("InvalidTarget")
    /\ DOk => /\ dres[1].v.full_arch # <<>>
              /\ dres[1].v.vendor # <<>>
              /\ dres[1].v.os # <<>>

\* the last component, and the component the decomposer takes as the OS:
\* the one before a recognized env/ABI token, else the last one
LastComponent(triple) == LET c == split(triple, "-") IN c[Len(c)]
OsComponent(triple) ==
    LET c == split(triple, "-")
    IN  IF parse_envabi(c[Len(c)]).some THEN c[Len(c) - 1] ELSE c[Len(c)]

ImpliedEnvOss == {<<"3","d","s">>, <<"v","x","w","o","r","k","s">>, <<"r","t","e","m","s">>, <<"e","s","p","i","d","f">>, <<"r","e","d","o","x">>}
ImpliedEnv(os) ==
    IF os = <<"v","x","w","o","r","k","s">> THEN <<"g","n","u">> ELSE IF os = <<"r","e","d","o","x">> THEN <<"r","e","l","i","b","c">> ELSE <<"n","e","w","l","i","b">>

IsExactTriple(triple) == \E i \in 1..Len(ExactTriples) : ExactTriples[i][1] = triple

\* C3 as stated: outside the exact-triple table, a non-empty env (abi) parsed
\* from the last component is returned unchanged when the OS implies an env
\* (abi).
C3_ExplicitBeatsImplied ==
    (DOk /\ target # SpecialTriple /\ ~IsExactTriple(target)
         /\ parse_envabi(LastComponent(target)).some)
        => LET parsed == parse_envabi(LastComponent(target)).v
           IN  /\ (OsComponent(target) \in ImpliedEnvOss /\ parsed[1] # <<>>)
                     => dres[1].v.env = parsed[1]
               /\ (OsComponent(target) = <<"a","i","x">> /\ parsed[2] # <<>>)
                     => dres[1].v.abi = parsed[2]

\* C3 amended: the OS-implied env is returned for every decomposed triple
\* whose OS component is 3ds, vxworks, rtems, espidf or redox, whatever the
\* last component parsed to; for aix the abi is vec-extabi unless the vendor
\* is uwp or fortanix.
C3_ImpliedAlwaysApplied ==
    (DOk /\ target # SpecialTriple)
        => /\ OsComponent(target) \in ImpliedEnvOss
                 => dres[1].v.env = ImpliedEnv(OsComponent(target))
           /\ (OsComponent(target) = <<"a","i","x">> /\ dres[1].v.vendor \notin {<<"u","w","p">>, <<"f","o","r","t","a","n","i","x">>})
                 => dres[1].v.abi = <<"v","e","c","-","e","x","t","a","b","i">>

\* an explicitly parsed env musl replaced by the env vxworks implies
C3_Witness ==
    /\ DOk
    /\ OsComponent(target) = <<"v","x","w","o","r","k","s">>
    /\ parse_envabi(LastComponent(target)) = Some(<<<<"m","u","s","l">>, <<>>>>)
    /\ dres[1].v.env = <<"g","n","u">>

KnownArch(full_arch) == \E i \in 1..Len(ArchArms) : ArchArmMatches(ArchArms[i], full_arch)
ArchFamilies == {ArchArms[i].out : i \in 1..Len(ArchArms)}

\* C9: apart from the special-cased triple, a first component matching no
\* arm of the architecture table fails with UnknownTarget whatever follows
\* it, and a success carries an arch of the table's families.
C9_UnknownArchFails ==
    /\ (Decomposed /\ target # SpecialTriple /\ ~KnownArch(split(target, "-")[1]))
          => DErr("UnknownTarget")
    /\ DOk => /\ dres[1].v.arch \in ArchFamilies
              /\ KnownArch(dres[1].v.full_arch)

C9_Witness ==
    /\ target = <<"b","o","g","u","s","a","r","c","h","-","u","n","k","n","o","w","n","-","l","i","n","u","x","-","g","n","u">>
    /\ DErr("UnknownTarget")

\* C10: every triple of the exact-triple table decomposes, and to the abi
\* the table gives it.
C10_ExactTripleWins ==
    \A i \in 1..Len(ExactTriples) :
        (Decomposed /\ target = ExactTriples[i][1])
            => /\ DOk
               /\ dres[1].v.abi = ExactTriples[i][2]
               /\ dres[1].v.abi \in {<<"s","i","m">>, <<"a","b","i","6","4">>, <<"e","a","b","i","h","f">>, <<"e","a","b","i">>, <<"i","l","p","3","2","e">>}

\* the table's abi kept through the OS alias (3ds -> horizon) and the
\* OS-implied env
C10_Witness ==
    /\ target = <<"a","r","m","v","6","k","-","n","i","n","t","e","n","d","o","-","3","d","s">>
    /\ DOk
    /\ dres[1].v.os = <<"h","o","r","i","z","o","n">>
    /\ dres[1].v.env = <<"n","e","w","l","i","b">>
    /\ dres[1].v.abi = <<"e","a","b","i","h","f">>

-----------------------------------------------------------------------------
(* Properties of the resolver's computation (specification SpecEnv) *)

Computed == tmp[1] # << >>
HasHyphen(s) == \E i \in 1..Len(s) : s[i] = "-"
AllOverridesSet(e) == \A n \in Overrides : e[n].some

\* C4 as stated: with the primary triple variable present, whatever its
\* value, and all five overrides set, the computation succeeds with the
\* override values.
C4_AnyPrimaryValueSucceeds ==
    (Computed /\ seen[1]["TARGET"].some /\ AllOverridesSet(seen[1]))
        => /\ tmp[1][1].ok
           /\ tmp[1][1].v.arch = seen[1]["CARGO_CFG_TARGET_ARCH"].v
           /\ tmp[1][1].v.vendor = seen[1]["CARGO_CFG_TARGET_VENDOR"].v
           /\ tmp[1][1].v.os = seen[1]["CARGO_CFG_TARGET_OS"].v
           /\ tmp[1][1].v.env = seen[1]["CARGO_CFG_TARGET_ENV"].v
           /\ tmp[1][1].v.abi = seen[1]["CARGO_CFG_TARGET_ABI"].v

\* C4 amended: the same, for a primary value whose first component is
\* non-empty and followed by a hyphen, also when the decomposer rejects the
\* value; a primary value without a hyphen fails with InvalidTarget whatever
\* the overrides, and no other error than EnvVarNotFound is returned for a
\* value with one.
C4_HyphenatedPrimaryValueSucceeds ==
    /\ (Computed /\ seen[1]["TARGET"].some /\ HasHyphen(seen[1]["TARGET"].v)
            /\ seen[1]["TARGET"].v[1] # "-" /\ AllOverridesSet(seen[1]))
          => /\ tmp[1][1].ok
             /\ tmp[1][1].v.arch = seen[1]["CARGO_CFG_TARGET_ARCH"].v
             /\ tmp[1][1].v.vendor = seen[1]["CARGO_CFG_TARGET_VENDOR"].v
             /\ tmp[1][1].v.os = seen[1]["CARGO_CFG_TARGET_OS"].v
             /\ tmp[1][1].v.env = seen[1]["CARGO_CFG_TARGET_ENV"].v
             /\ tmp[1][1].v.abi = seen[1]["CARGO_CFG_TARGET_ABI"].v
    /\ (Computed /\ seen[1]["TARGET"].some /\ HasHyphen(seen[1]["TARGET"].v)
            /\ ~tmp[1][1].ok)
          => tmp[1][1].kind = "EnvVarNotFound"
    /\ (Computed /\ seen[1]["TARGET"].some /\ ~HasHyphen(seen[1]["TARGET"].v))
          => /\ ~tmp[1][1].ok
             /\ tmp[1][1].kind = "InvalidTarget"

\* the decomposer rejects the primary value and the call still succeeds
C4_Witness ==
    /\ ret[1] # << >>
    /\ seen[1]["TARGET"] = Some(<<"b","o","g","u","s","a","r","c","h","-","u","n","k","n","o","w","n","-","l","i","n","u","x","-","g","n","u">>)
    /\ ~from_rustc_target(seen[1]["TARGET"].v).ok
    /\ AllOverridesSet(seen[1])
    /\ ret[1][1].r.ok
    /\ ret[1][1].r.v.arch = <<"r","i","s","c","v","6","4">>

FieldVar(f) ==
    IF f = "arch" THEN "CARGO_CFG_TARGET_ARCH"
    ELSE IF f = "vendor" THEN "CARGO_CFG_TARGET_VENDOR"
    ELSE IF f = "os" THEN "CARGO_CFG_TARGET_OS"
    ELSE IF f = "env" THEN "CARGO_CFG_TARGET_ENV"
    ELSE "CARGO_CFG_TARGET_ABI"

Required == {"arch", "vendor", "os", "env"}

C8_FullArchIsFirstComponent ==
    /\ DOk => /\ dres[1].v.full_arch # <<>>
              /\ dres[1].v.full_arch = split(target, "-")[1]
    /\ \A t \in Threads :
          (ret[t] # << >> /\ ret[t][1].r.ok)
              => /\ ret[t][1].r.v.full_arch # <<>>
                 /\ ret[t][1].r.v.full_arch = split(seen[1]["TARGET"].v, "-")[1]

-----------------------------------------------------------------------------
(* Properties of the cache (specification SpecResolver) *)

\* C5: the computation runs at most once, one value is committed, and every
\* call returns the committed value.
C5_AtMostOnce ==
    /\ runs <= 1
    /\ commits <= 1
    /\ \A t \in Threads :
          ret[t] # << >> => /\ commits = 1
                            /\ ret[t][1].r = cached_result(slot[1])
    /\ \A t, u \in Threads :
          (ret[t] # << >> /\ ret[u] # << >>) => ret[t][1].r = ret[u][1].r

\* two callers raced: one ran the closure, the other blocked on it, and
\* both have returned
C5_Witness ==
    \E t, u \in Threads :
        /\ ret[t] # << >> /\ ret[t][1].how = "init"
        /\ ret[u] # << >> /\ ret[u][1].how = "wait"
        /\ runs = 1

\* C6: every call returns what the first completed call returned, whatever
\* was done to the environment in between.
C6_LaterCallsSeeFirstResult ==
    \A t \in Threads :
        ret[t] # << >> => /\ first # << >>
                          /\ ret[t][1].r = first[1].r

\* a call that returned after the environment was changed to one in which
\* the computation would give another result; here a cached failure
C6_Witness ==
    \E t \in Threads :
        /\ ret[t] # << >>
        /\ first # << >>
        /\ ret[t][1].at > first[1].at
        /\ ~ret[t][1].r.ok
        /\ from_cargo_environment_variables(environ).ok

-----------------------------------------------------------------------------
(* Sub-architecture folding *)

\* the arms of the architecture table a full_arch matches
MatchingArms(full_arch) ==
    {i \in 1..Len(ArchArms) : ArchArmMatches(ArchArms[i], full_arch)}

\* the arms among them with the longest pattern
MostSpecificArms(full_arch) ==
    {i \in MatchingArms(full_arch) :
        \A j \in MatchingArms(full_arch) : Len(ArchArms[j].pat) <= Len(ArchArms[i].pat)}

\* the sub-architectures the table must keep apart from a shorter prefix
NotShadowed == <<
    <<<<"m","i","p","s","i","s","a","3","2","r","6">>, <<"m","i","p","s","3","2","r","6">>>>, <<<<"m","i","p","s","i","s","a","3","2","r","6","e","l">>, <<"m","i","p","s","3","2","r","6">>>>,
    <<<<"m","i","p","s","i","s","a","6","4","r","6">>, <<"m","i","p","s","6","4","r","6">>>>, <<<<"m","i","p","s","i","s","a","6","4","r","6","e","l">>, <<"m","i","p","s","6","4","r","6">>>>,
    <<<<"m","i","p","s","6","4">>, <<"m","i","p","s","6","4">>>>, <<<<"m","i","p","s","6","4","e","l">>, <<"m","i","p","s","6","4">>>>,
    <<<<"m","i","p","s">>, <<"m","i","p","s">>>>, <<<<"m","i","p","s","e","l">>, <<"m","i","p","s">>>>,
    <<<<"p","o","w","e","r","p","c","6","4">>, <<"p","o","w","e","r","p","c","6","4">>>>, <<<<"p","o","w","e","r","p","c","6","4","l","e">>, <<"p","o","w","e","r","p","c","6","4">>>>,
    <<<<"p","p","c","6","4">>, <<"p","o","w","e","r","p","c","6","4">>>>, <<<<"p","p","c","6","4","l","e">>, <<"p","o","w","e","r","p","c","6","4">>>>,
    <<<<"p","o","w","e","r","p","c">>, <<"p","o","w","e","r","p","c">>>>, <<<<"p","p","c">>, <<"p","o","w","e","r","p","c">>>>,
    <<<<"n","v","p","t","x","6","4">>, <<"n","v","p","t","x","6","4">>>>, <<<<"n","v","p","t","x">>, <<"n","v","p","t","x">>>>,
    <<<<"a","a","r","c","h","6","4">>, <<"a","a","r","c","h","6","4">>>>, <<<<"a","a","r","c","h","6","4","_","b","e">>, <<"a","a","r","c","h","6","4">>>>,
    <<<<"a","r","m","6","4">>, <<"a","a","r","c","h","6","4">>>>, <<<<"a","r","m","6","4","e">>, <<"a","a","r","c","h","6","4">>>>, <<<<"a","r","m","6","4","_","3","2">>, <<"a","a","r","c","h","6","4">>>>,
    <<<<"a","r","m","6","4","e","c">>, <<"a","r","m","6","4","e","c">>>>,
    <<<<"a","r","m">>, <<"a","r","m">>>>, <<<<"a","r","m","v","7","s">>, <<"a","r","m">>>>, <<<<"a","r","m","e","b">>, <<"a","r","m">>>> >>

\* C11: a successful decomposition returns the family of the longest rule of
\* the architecture table that matches the first component; in
\* <variant>-unknown-linux-gnu the variants of one family all succeed with
\* that family, and mipsisa32r6*, mipsisa64r6*, mips64*, powerpc64*, ppc64*,
\* nvptx64*, aarch64*, arm64* and arm64ec are not taken by the shorter mips,
\* powerpc, ppc, nvptx, arm and arm64 rules.
C11_MostSpecificRuleWins ==
    /\ (DOk /\ target # SpecialTriple) =>
          /\ dres[1].v.full_arch = split(target, "-")[1]
          /\ MostSpecificArms(dres[1].v.full_arch) # {}
          /\ \A i \in MostSpecificArms(dres[1].v.full_arch) :
                dres[1].v.arch = ArchArms[i].out
    /\ \A k \in 1..Len(NotShadowed) :
          (Decomposed /\ target = Join(<<NotShadowed[k][1], <<"u","n","k","n","o","w","n">>, <<"l","i","n","u","x">>, <<"g","n","u">>>>))
              => /\ DOk
                 /\ dres[1].v.arch = NotShadowed[k][2]
                 /\ dres[1].v.full_arch = NotShadowed[k][1]

\* arm64ec-unknown-linux-gnu decomposed: the arm64ec, arm64 and arm rules
\* all match the first component
C11_Witness ==
    /\ DOk
    /\ target = <<"a","r","m","6","4","e","c","-","u","n","k","n","o","w","n","-","l","i","n","u","x","-","g","n","u">>
    /\ Cardinality(MatchingArms(dres[1].v.full_arch)) = 3
    /\ dres[1].v.arch = <<"a","r","m","6","4","e","c">>

-----------------------------------------------------------------------------
(* The re-encoder *)

Encoded == llvm # << >>

\* C12: the String returned is the normalized arch; then "-" and the
\* normalized vendor if and only if that vendor is not empty; then "-" and
\* the normalized os directly followed by the version, or by nothing
\* without one; then "-" and the normalized env directly followed by the
\* normalized abi if and only if one of the two is not empty. The record
\* {aarch64, aarch64, apple, ios, "", sim} with version 14.0 gives
\* arm64-apple-ios14.0-simulator.
C12_EncodedShape ==
    Encoded =>
        LET t == dres[1].v
            version == IF llvm[1].version.some THEN llvm[1].version.v ELSE <<>>
        IN  /\ llvm[1].out =
                  llvm_arch(t)
                  \o (IF llvm_vendor(t) # <<>> THEN <<"-">> \o llvm_vendor(t) ELSE <<>>)
                  \o <<"-">> \o llvm_os(t) \o version
                  \o (IF llvm_env(t) # <<>> \/ llvm_abi(t) # <<>>
                      THEN <<"-">> \o llvm_env(t) \o llvm_abi(t) ELSE <<>>)
            /\ (/\ t = TargetInfo(<<"a","a","r","c","h","6","4">>, <<"a","a","r","c","h","6","4">>, <<"a","p","p","l","e">>, <<"i","o","s">>, <<>>, <<"s","i","m">>)
                /\ llvm[1].version = Some(<<"1","4",".","0">>))
                   => llvm[1].out = <<"a","r","m","6","4","-","a","p","p","l","e","-","i","o","s","1","4",".","0","-","s","i","m","u","l","a","t","o","r">>

\* the record of the example encoded with version 14.0
C12_Witness ==
    /\ Encoded
    /\ dres[1].v = TargetInfo(<<"a","a","r","c","h","6","4">>, <<"a","a","r","c","h","6","4">>, <<"a","p","p","l","e">>, <<"i","o","s">>, <<>>, <<"s","i","m">>)
    /\ llvm[1].version = Some(<<"1","4",".","0">>)
    /\ llvm[1].out = <<"a","r","m","6","4","-","a","p","p","l","e","-","i","o","s","1","4",".","0","-","s","i","m","u","l","a","t","o","r">>

\* the nine triples of the test tier1
Tier1 ==
    {<<"a","a","r","c","h","6","4","-","u","n","k","n","o","w","n","-","l","i","n","u","x","-","g","n","u">>, <<"a","a","r","c","h","6","4","-","a","p","p","l","e","-","d","a","r","w","i","n">>, <<"i","6","8","6","-","p","c","-","w","i","n","d","o","w","s","-","g","n","u">>,
     <<"i","6","8","6","-","p","c","-","w","i","n","d","o","w","s","-","m","s","v","c">>, <<"i","6","8","6","-","u","n","k","n","o","w","n","-","l","i","n","u","x","-","g","n","u">>, <<"x","8","6","_","6","4","-","a","p","p","l","e","-","d","a","r","w","i","n">>,
     <<"x","8","6","_","6","4","-","p","c","-","w","i","n","d","o","w","s","-","g","n","u">>, <<"x","8","6","_","6","4","-","p","c","-","w","i","n","d","o","w","s","-","m","s","v","c">>, <<"x","8","6","_","6","4","-","u","n","k","n","o","w","n","-","l","i","n","u","x","-","g","n","u">>}

\* the triple with darwin written macosx and aarch64 of apple written arm64
Tier1Encoded(triple) ==
    LET c == split(triple, "-")
    IN  Join([i \in 1..Len(c) |->
                 IF i = 1 /\ c[1] = <<"a","a","r","c","h","6","4">> /\ c[2] = <<"a","p","p","l","e">> THEN <<"a","r","m","6","4">>
                 ELSE IF i = 3 /\ c[3] = <<"d","a","r","w","i","n">> THEN <<"m","a","c","o","s","x">>
                 ELSE c[i]])

\* C13: each of the nine tier-1 triples decomposes successfully, and the
\* record re-encoded without a version is the triple itself, but for darwin
\* written macosx and aarch64 with vendor apple written arm64.
C13_Tier1RoundTrip ==
    (Decomposed /\ target \in Tier1) =>
        /\ DOk
        /\ (Encoded /\ ~llvm[1].version.some) => llvm[1].out = Tier1Encoded(target)

\* aarch64-apple-darwin decomposed and re-encoded without a version: both
\* rewritings apply
C13_Witness ==
    /\ DOk /\ Encoded
    /\ target = <<"a","a","r","c","h","6","4","-","a","p","p","l","e","-","d","a","r","w","i","n">>
    /\ llvm[1].version = None
    /\ llvm[1].out = <<"a","r","m","6","4","-","a","p","p","l","e","-","m","a","c","o","s","x">>
    /\ llvm[1].out # target

-----------------------------------------------------------------------------
(* The special-cased triple and the component "none" *)

\* C14: x86_64-unknown-linux-none returns the record {x86_64, x86_64,
\* unknown, linux, "", ""}. In every other triple with a known architecture
\* a last component "none" is the OS: with at most a vendor before it the
\* decomposition succeeds with os "none" and an empty env, and with one
\* component more it fails with UnknownTarget, as for any last component
\* that is no env/ABI token.
C14_NoneIsTheOs ==
    /\ (Decomposed /\ target = SpecialTriple) =>
          /\ DOk
          /\ dres[1].v = TargetInfo(<<"x","8","6","_","6","4">>, <<"x","8","6","_","6","4">>, <<"u","n","k","n","o","w","n">>, <<"l","i","n","u","x">>, <<>>, <<>>)
    /\ (/\ Decomposed /\ target # SpecialTriple
        /\ KnownArch(split(target, "-")[1])
        /\ Len(split(target, "-")) >= 2
        /\ LastComponent(target) = <<"n","o","n","e">>) =>
          LET n == Len(split(target, "-"))
          IN  /\ n \in {2, 3} => /\ DOk
                                 /\ dres[1].v.os = <<"n","o","n","e">>
                                 /\ dres[1].v.env = <<>>
                                 /\ dres[1].v.vendor =
                                       (IF n = 2 THEN <<"u","n","k","n","o","w","n">>
                                        ELSE VendorNorm(split(target, "-")[2], <<"n","o","n","e">>))
              /\ n = 4 => DErr("UnknownTarget")
              /\ n > 4 => DErr("InvalidTarget")

\* the special-cased triple decomposed, and the general rules fail on the
\* triple that differs from it in the architecture only
C14_Witness ==
    /\ DOk
    /\ target = SpecialTriple
    /\ dres[1].v.os = <<"l","i","n","u","x">>
    /\ ~from_rustc_target(<<"a","a","r","c","h","6","4","-","u","n","k","n","o","w","n","-","l","i","n","u","x","-","n","o","n","e">>).ok

-----------------------------------------------------------------------------
(* Components left over after the vendor *)

\* whether the last component is an env/ABI token
LastRecognized(triple) == parse_envabi(LastComponent(triple)).some

\* the components after the architecture that the env/ABI token, the os and
\* the vendor do not account for
LeftOver(triple) ==
    (Len(split(triple, "-")) - 1) - (IF LastRecognized(triple) THEN 3 ELSE 2)

\* the general rules ran on a known architecture and left components over
HadLeftOver ==
    /\ Decomposed
    /\ target # SpecialTriple
    /\ KnownArch(split(target, "-")[1])
    /\ LeftOver(target) >= 1

\* C15 as stated: with components left over the decomposition fails, with
\* UnknownTarget exactly when the last component is no env/ABI token and one
\* component is left over, which is the architecture plus four components
\* with the last one unrecognized, and with InvalidTarget when the last
\* component is an env/ABI token or two or more are left over.
C15_UnknownAtFourComponents ==
    HadLeftOver =>
        /\ ~dres[1].ok
        /\ DErr("UnknownTarget") <=> (~LastRecognized(target) /\ LeftOver(target) = 1)
        /\ (~LastRecognized(target) /\ LeftOver(target) = 1)
              <=> (~LastRecognized(target) /\ Len(split(target, "-")) = 1 + 4)
        /\ DErr("InvalidTarget") <=> (LastRecognized(target) \/ LeftOver(target) >= 2)

\* C15, amended: the same, but one component left over with an unrecognized
\* last component is the architecture plus three components.
C15_UnknownAtThreeComponents ==
    HadLeftOver =>
        /\ ~dres[1].ok
        /\ DErr("UnknownTarget") <=> (~LastRecognized(target) /\ LeftOver(target) = 1)
        /\ (~LastRecognized(target) /\ LeftOver(target) = 1)
              <=> (~LastRecognized(target) /\ Len(split(target, "-")) = 1 + 3)
        /\ DErr("InvalidTarget") <=> (LastRecognized(target) \/ LeftOver(target) >= 2)

\* the architecture and three components without an empty one, the last no
\* env/ABI token: one component is left over and the error is UnknownTarget
C15_Witness ==
    /\ HadLeftOver
    /\ ~HasEmptyComponent(target)
    /\ ~LastRecognized(target)
    /\ Len(split(target, "-")) = 1 + 3
    /\ LeftOver(target) = 1
    /\ DErr("UnknownTarget")

-----------------------------------------------------------------------------
(* The vendors that force the abi *)

\* the abi before the vendor is looked at: parsed from the last component,
\* then implied by the os, then the exact triple's, then the os alias's
EarlierAbi(triple) ==
    LET parsed == parse_envabi(LastComponent(triple))
    IN  IF OsComponent(triple) = <<"a","n","d","r","o","i","d","e","a","b","i">> THEN <<"e","a","b","i">>
        ELSE IF IsExactTriple(triple)
             THEN LET i == CHOOSE i \in 1..Len(ExactTriples) : ExactTriples[i][1] = triple
                  IN  ExactTriples[i][2]
        ELSE IF OsComponent(triple) = <<"a","i","x">> THEN <<"v","e","c","-","e","x","t","a","b","i">>
        ELSE IF parsed.some THEN parsed.v[2]
        ELSE <<>>

\* C16: a record returned with vendor uwp or fortanix has that vendor as its
\* abi, whatever abi the last component, the os or the os alias gave; with
\* any other vendor the abi is the one those earlier steps gave.
C16_VendorForcesAbi ==
    (DOk /\ target # SpecialTriple) =>
        IF dres[1].v.vendor \in {<<"u","w","p">>, <<"f","o","r","t","a","n","i","x">>}
        THEN dres[1].v.abi = dres[1].v.vendor
        ELSE dres[1].v.abi = EarlierAbi(target)

\* vendor fortanix over an abi the earlier steps had set to something else
C16_Witness ==
    /\ DOk
    /\ dres[1].v.vendor = <<"f","o","r","t","a","n","i","x">>
    /\ dres[1].v.abi = <<"f","o","r","t","a","n","i","x">>
    /\ EarlierAbi(target) \notin {<<>>, <<"f","o","r","t","a","n","i","x">>}

-----------------------------------------------------------------------------
(* The optional vendor *)

\* the triple without its second component
WithoutVendor(triple) ==
    LET c == split(triple, "-")
    IN  Join(<<c[1]>> \o SubSeq(c, 3, Len(c)))

\* A-V-O-E or A-V-O decomposed: A a known architecture, E an env/ABI token
\* and O none, no component empty
HasVendor ==
    /\ Decomposed
    /\ target # SpecialTriple
    /\ ~HasEmptyComponent(target)
    /\ LET c == split(target, "-")
       IN  /\ Len(c) \in {3, 4}
           /\ KnownArch(c[1])
           /\ Len(c) = 4 => LastRecognized(target)
           /\ ~parse_envabi(c[3]).some

\* the vendor returned for the component V when the os returned is os
ReturnedVendor(V, os) ==
    IF starts_with(V, <<"e","s","p">>) THEN <<"e","s","p","r","e","s","s","i","f">>
    ELSE IF V = <<"o","p","e","n","w","r","t">> THEN <<"u","n","k","n","o","w","n">>
    ELSE IF V = <<"l","i","n","u","x">> /\ os = <<"a","n","d","r","o","i","d">> THEN <<"u","n","k","n","o","w","n">>
    ELSE V

\* C17 as stated: A-O-E and A-O decompose with vendor unknown, A-V-O-E and
\* A-V-O decompose for any V with the same os, env and abi, and the vendor
\* returned is V, but espressif for a V starting with esp, unknown for
\* openwrt, and unknown for linux with the os android.
C17_VendorChangesNothingElse ==
    HasVendor =>
        LET without == from_rustc_target(WithoutVendor(target))
        IN  /\ without.ok
            /\ without.v.vendor = <<"u","n","k","n","o","w","n">>
            /\ DOk
            /\ dres[1].v.os = without.v.os
            /\ dres[1].v.env = without.v.env
            /\ dres[1].v.abi = without.v.abi
            /\ dres[1].v.vendor = ReturnedVendor(split(target, "-")[2], dres[1].v.os)

\* C17, amended: the same, but the abi is the one of A-O-E or A-O only when
\* the vendor returned is neither uwp nor fortanix and the triple with the
\* vendor is not in the exact-triple table; otherwise it is that vendor, or
\* else the table's abi.
C17_VendorChangesAbiOnly ==
    HasVendor =>
        LET without == from_rustc_target(WithoutVendor(target))
        IN  /\ without.ok
            /\ without.v.vendor = <<"u","n","k","n","o","w","n">>
            /\ DOk
            /\ dres[1].v.os = without.v.os
            /\ dres[1].v.env = without.v.env
            /\ dres[1].v.abi =
                  (IF dres[1].v.vendor \in {<<"u","w","p">>, <<"f","o","r","t","a","n","i","x">>} THEN dres[1].v.vendor
                   ELSE IF IsExactTriple(target) THEN EarlierAbi(target)
                   ELSE without.v.abi)
            /\ dres[1].v.vendor = ReturnedVendor(split(target, "-")[2], dres[1].v.os)

\* vendor uwp before an os and an env/ABI token: os and env are those of
\* the triple without the vendor, the abi is not
C17_Witness ==
    /\ HasVendor
    /\ DOk
    /\ Len(split(target, "-")) = 4
    /\ split(target, "-")[2] = <<"u","w","p">>
    /\ dres[1].v.vendor = <<"u","w","p">>
    /\ dres[1].v.os = from_rustc_target(WithoutVendor(target)).v.os
    /\ dres[1].v.abi = <<"u","w","p">>
    /\ from_rustc_target(WithoutVendor(target)).v.abi # <<"u","w","p">>

====
